---- MODULE Spec2Model ----
(***************************************************************************)
(* The relational schema of app/models.py and the write operations the     *)
(* declared column constraints govern.                                     *)
(*                                                                         *)
(* A table is a set of rows; a row is a record with the declared columns.  *)
(* Each schema definition below carries, for one SQLModel class, what its  *)
(* Field(...) declarations state: static defaults, default_factory         *)
(* timestamps, Optional columns, enum-typed columns, ge/gt/le ranges,      *)
(* unique columns and foreign keys.  Columns that carry only free text or  *)
(* JSON (max_length strings, sa_column=Column(JSON)) and no other          *)
(* constraint are left out of the rows, except the ones UserCreate and     *)
(* UserUpdate transfer.  The value of an Optional column is a set: {} is   *)
(* None and {v} is the value v.                                            *)
(***************************************************************************)
EXTENDS Integers, FiniteSets, Sequences, TLC

VARIABLES db, now, last, pending

vars == <<db, now, last, pending>>

(* Bounds of the model. *)
MaxRows == 3
MaxTime == 1
NumProcs == 2

(* ---------------------------------------------------------------- enums *)
GradeLevel == {"grade_4", "grade_5", "grade_6"}

UserRole == {"teacher", "student", "admin"}

DifficultyLevel == {"easy", "medium", "hard"}

ContentType == {"presentation", "text", "image", "video", "audio", "document"}

HistoricalPeriod == {"prehistoric", "hindu_buddhist", "islamic_kingdoms",
                     "colonial_dutch", "colonial_japanese", "independence",
                     "post_independence"}

RewardType == {"points", "badge", "power_up", "achievement"}

None == {}

NoFields == <<>>

(* -------------------------------------------------------------- schemas *)
User ==
    [table    |-> "users",
     fields   |-> {"username", "email", "full_name", "role", "grade_level", "school_name", "is_active", "created_at", "updated_at"},
     defaults |-> [role |-> "student", grade_level |-> None, school_name |-> None,
                   is_active |-> TRUE],
     stamps   |-> {"created_at", "updated_at"},
     optional |-> {"grade_level", "school_name"},
     enums    |-> [role |-> UserRole, grade_level |-> GradeLevel],
     ge       |-> NoFields,
     gt       |-> NoFields,
     le       |-> NoFields,
     unique   |-> {"username", "email"},
     fks      |-> NoFields]

LearningModule ==
    [table    |-> "learning_modules",
     fields   |-> {"grade_level", "historical_period", "teacher_id", "is_published", "created_at", "updated_at"},
     defaults |-> [is_published |-> FALSE],
     stamps   |-> {"created_at", "updated_at"},
     optional |-> {},
     enums    |-> [grade_level |-> GradeLevel, historical_period |-> HistoricalPeriod],
     ge       |-> NoFields,
     gt       |-> NoFields,
     le       |-> NoFields,
     unique   |-> {},
     fks      |-> [teacher_id |-> "users"]]

LessonPlan ==
    [table    |-> "lesson_plans",
     fields   |-> {"module_id", "duration_minutes", "created_at"},
     defaults |-> NoFields,
     stamps   |-> {"created_at"},
     optional |-> {},
     enums    |-> NoFields,
     ge       |-> NoFields,
     gt       |-> [duration_minutes |-> 0],
     le       |-> NoFields,
     unique   |-> {},
     fks      |-> [module_id |-> "learning_modules"]]

TeachingMaterial ==
    [table    |-> "teaching_materials",
     fields   |-> {"module_id", "content_type", "is_validated", "created_at"},
     defaults |-> [is_validated |-> FALSE],
     stamps   |-> {"created_at"},
     optional |-> {},
     enums    |-> [content_type |-> ContentType],
     ge       |-> NoFields,
     gt       |-> NoFields,
     le       |-> NoFields,
     unique   |-> {},
     fks      |-> [module_id |-> "learning_modules"]]

StudentActivity ==
    [table    |-> "student_activities",
     fields   |-> {"module_id", "estimated_duration", "created_at"},
     defaults |-> NoFields,
     stamps   |-> {"created_at"},
     optional |-> {},
     enums    |-> NoFields,
     ge       |-> NoFields,
     gt       |-> [estimated_duration |-> 0],
     le       |-> NoFields,
     unique   |-> {},
     fks      |-> [module_id |-> "learning_modules"]]

QuizLevel ==
    [table    |-> "quiz_levels",
     fields   |-> {"level_number", "historical_period", "reward_points", "difficulty_level", "is_active", "created_at"},
     defaults |-> [reward_points |-> 100, difficulty_level |-> "easy", is_active |-> TRUE],
     stamps   |-> {"created_at"},
     optional |-> {},
     enums    |-> [historical_period |-> HistoricalPeriod, difficulty_level |-> DifficultyLevel],
     ge       |-> [level_number |-> 1, reward_points |-> 0],
     gt       |-> NoFields,
     le       |-> NoFields,
     unique   |-> {},
     fks      |-> NoFields]

QuizQuestion ==
    [table    |-> "quiz_questions",
     fields   |-> {"level_id", "difficulty", "points", "created_at"},
     defaults |-> [difficulty |-> "medium", points |-> 10],
     stamps   |-> {"created_at"},
     optional |-> {},
     enums    |-> [difficulty |-> DifficultyLevel],
     ge       |-> [points |-> 1],
     gt       |-> NoFields,
     le       |-> NoFields,
     unique   |-> {},
     fks      |-> [level_id |-> "quiz_levels"]]

QuizSession ==
    [table    |-> "quiz_sessions",
     fields   |-> {"student_id", "level_id", "start_time", "end_time", "score", "total_questions", "correct_answers", "is_completed"},
     defaults |-> [end_time |-> None, score |-> 0, correct_answers |-> 0,
                   is_completed |-> FALSE],
     stamps   |-> {"start_time"},
     optional |-> {"end_time"},
     enums    |-> NoFields,
     ge       |-> [score |-> 0, total_questions |-> 1, correct_answers |-> 0],
     gt       |-> NoFields,
     le       |-> NoFields,
     unique   |-> {},
     fks      |-> [student_id |-> "users", level_id |-> "quiz_levels"]]

StudentReward ==
    [table    |-> "student_rewards",
     fields   |-> {"student_id", "reward_type", "points_value", "earned_at"},
     defaults |-> [points_value |-> 0],
     stamps   |-> {"earned_at"},
     optional |-> {},
     enums    |-> [reward_type |-> RewardType],
     ge       |-> [points_value |-> 0],
     gt       |-> NoFields,
     le       |-> NoFields,
     unique   |-> {},
     fks      |-> [student_id |-> "users"]]

VocabularyTerm ==
    [table    |-> "vocabulary_terms",
     fields   |-> {"term", "historical_period", "difficulty_level", "created_at", "updated_at"},
     defaults |-> [difficulty_level |-> "medium"],
     stamps   |-> {"created_at", "updated_at"},
     optional |-> {},
     enums    |-> [historical_period |-> HistoricalPeriod,
                   difficulty_level |-> DifficultyLevel],
     ge       |-> NoFields,
     gt       |-> NoFields,
     le       |-> NoFields,
     unique   |-> {"term"},
     fks      |-> NoFields]

VocabularyConnection ==
    [table    |-> "vocabulary_connections",
     fields   |-> {"source_term_id", "target_term_id", "strength", "created_at"},
     defaults |-> [strength |-> 1],
     stamps   |-> {"created_at"},
     optional |-> {},
     enums    |-> NoFields,
     ge       |-> [strength |-> 1],
     gt       |-> NoFields,
     le       |-> [strength |-> 5],
     unique   |-> {},
     fks      |-> [source_term_id |-> "vocabulary_terms",
                   target_term_id |-> "vocabulary_terms"]]

HistoricalFigure ==
    [table    |-> "historical_figures",
     fields   |-> {"historical_period", "is_featured", "created_at", "updated_at"},
     defaults |-> [is_featured |-> FALSE],
     stamps   |-> {"created_at", "updated_at"},
     optional |-> {},
     enums    |-> [historical_period |-> HistoricalPeriod],
     ge       |-> NoFields,
     gt       |-> NoFields,
     le       |-> NoFields,
     unique   |-> {},
     fks      |-> NoFields]

DiaryEntry ==
    [table    |-> "diary_entries",
     fields   |-> {"figure_id", "is_fictional", "order_sequence", "created_at"},
     defaults |-> [is_fictional |-> TRUE, order_sequence |-> 1],
     stamps   |-> {"created_at"},
     optional |-> {},
     enums    |-> NoFields,
     ge       |-> [order_sequence |-> 1],
     gt       |-> NoFields,
     le       |-> NoFields,
     unique   |-> {},
     fks      |-> [figure_id |-> "historical_figures"]]

TimelineEvent ==
    [table    |-> "timeline_events",
     fields   |-> {"figure_id", "order_sequence", "is_major_event", "created_at"},
     defaults |-> [order_sequence |-> 1, is_major_event |-> FALSE],
     stamps   |-> {"created_at"},
     optional |-> {},
     enums    |-> NoFields,
     ge       |-> [order_sequence |-> 1],
     gt       |-> NoFields,
     le       |-> NoFields,
     unique   |-> {},
     fks      |-> [figure_id |-> "historical_figures"]]

MultimediaContent ==
    [table    |-> "multimedia_content",
     fields   |-> {"figure_id", "content_type", "is_primary_source", "created_at"},
     defaults |-> [is_primary_source |-> FALSE],
     stamps   |-> {"created_at"},
     optional |-> {},
     enums    |-> [content_type |-> ContentType],
     ge       |-> NoFields,
     gt       |-> NoFields,
     le       |-> NoFields,
     unique   |-> {},
     fks      |-> [figure_id |-> "historical_figures"]]

ARTrigger ==
    [table    |-> "ar_triggers",
     fields   |-> {"is_active", "created_at", "updated_at"},
     defaults |-> [is_active |-> TRUE],
     stamps   |-> {"created_at", "updated_at"},
     optional |-> {},
     enums    |-> NoFields,
     ge       |-> NoFields,
     gt       |-> NoFields,
     le       |-> NoFields,
     unique   |-> {},
     fks      |-> NoFields]

ARExperience ==
    [table    |-> "ar_experiences",
     fields   |-> {"trigger_id", "figure_id", "duration_seconds", "difficulty_level", "is_published", "created_at", "updated_at"},
     defaults |-> [figure_id |-> None, duration_seconds |-> 60,
                   difficulty_level |-> "medium", is_published |-> FALSE],
     stamps   |-> {"created_at", "updated_at"},
     optional |-> {"figure_id"},
     enums    |-> [difficulty_level |-> DifficultyLevel],
     ge       |-> [duration_seconds |-> 1],
     gt       |-> NoFields,
     le       |-> NoFields,
     unique   |-> {},
     fks      |-> [trigger_id |-> "ar_triggers", figure_id |-> "historical_figures"]]

ARInteraction ==
    [table    |-> "ar_interactions",
     fields   |-> {"experience_id", "order_sequence", "created_at"},
     defaults |-> [order_sequence |-> 1],
     stamps   |-> {"created_at"},
     optional |-> {},
     enums    |-> NoFields,
     ge       |-> [order_sequence |-> 1],
     gt       |-> NoFields,
     le       |-> NoFields,
     unique   |-> {},
     fks      |-> [experience_id |-> "ar_experiences"]]

StudentProgress ==
    [table    |-> "student_progress",
     fields   |-> {"student_id", "activity_id", "progress_percentage", "completion_time", "score", "attempts_count", "last_accessed"},
     defaults |-> [progress_percentage |-> 0, completion_time |-> None,
                   score |-> None, attempts_count |-> 1],
     stamps   |-> {"last_accessed"},
     optional |-> {"completion_time", "score"},
     enums    |-> NoFields,
     ge       |-> [progress_percentage |-> 0, score |-> 0, attempts_count |-> 1],
     gt       |-> NoFields,
     le       |-> [progress_percentage |-> 100],
     unique   |-> {},
     fks      |-> [student_id |-> "users"]]

UsageAnalytics ==
    [table    |-> "usage_analytics",
     fields   |-> {"user_id", "session_duration", "timestamp"},
     defaults |-> [session_duration |-> 0],
     stamps   |-> {"timestamp"},
     optional |-> {},
     enums    |-> NoFields,
     ge       |-> [session_duration |-> 0],
     gt       |-> NoFields,
     le       |-> NoFields,
     unique   |-> {},
     fks      |-> [user_id |-> "users"]]

Tables ==
    {"users",
     "learning_modules",
     "lesson_plans",
     "teaching_materials",
     "student_activities",
     "quiz_levels",
     "quiz_questions",
     "quiz_sessions",
     "student_rewards",
     "vocabulary_terms",
     "vocabulary_connections",
     "historical_figures",
     "diary_entries",
     "timeline_events",
     "multimedia_content",
     "ar_triggers",
     "ar_experiences",
     "ar_interactions",
     "student_progress",
     "usage_analytics"}

Schema(t) ==
    CASE t = "users" -> User
      [] t = "learning_modules" -> LearningModule
      [] t = "lesson_plans" -> LessonPlan
      [] t = "teaching_materials" -> TeachingMaterial
      [] t = "student_activities" -> StudentActivity
      [] t = "quiz_levels" -> QuizLevel
      [] t = "quiz_questions" -> QuizQuestion
      [] t = "quiz_sessions" -> QuizSession
      [] t = "student_rewards" -> StudentReward
      [] t = "vocabulary_terms" -> VocabularyTerm
      [] t = "vocabulary_connections" -> VocabularyConnection
      [] t = "historical_figures" -> HistoricalFigure
      [] t = "diary_entries" -> DiaryEntry
      [] t = "timeline_events" -> TimelineEvent
      [] t = "multimedia_content" -> MultimediaContent
      [] t = "ar_triggers" -> ARTrigger
      [] t = "ar_experiences" -> ARExperience
      [] t = "ar_interactions" -> ARInteraction
      [] t = "student_progress" -> StudentProgress
      [] t = "usage_analytics" -> UsageAnalytics

(* ------------------------------------------------- column constraints *)
(* The values a column holds: none for an Optional column that is None. *)
Values(S, r, f) == IF f \in S.optional THEN r[f] ELSE {r[f]}

(* FieldOk without the le bound. *)
FieldOkNoUpper(S, f, vs) ==
    /\ f \in DOMAIN S.enums => vs \subseteq S.enums[f]
    /\ f \in DOMAIN S.ge => \A v \in vs : v >= S.ge[f]
    /\ f \in DOMAIN S.gt => \A v \in vs : v > S.gt[f]

(* FieldOk with the enum columns typed as plain strings. *)
FieldOkNoEnum(S, f, vs) ==
    /\ f \in DOMAIN S.ge => \A v \in vs : v >= S.ge[f]
    /\ f \in DOMAIN S.gt => \A v \in vs : v > S.gt[f]
    /\ f \in DOMAIN S.le => \A v \in vs : v <= S.le[f]

(* FieldOk without the ge bound. *)
FieldOkNoLower(S, f, vs) ==
    /\ f \in DOMAIN S.enums => vs \subseteq S.enums[f]
    /\ f \in DOMAIN S.gt => \A v \in vs : v > S.gt[f]
    /\ f \in DOMAIN S.le => \A v \in vs : v <= S.le[f]

(* Enum membership and ge / gt / le of one column. *)
FieldOk(S, f, vs) ==
    /\ f \in DOMAIN S.enums => vs \subseteq S.enums[f]
    /\ f \in DOMAIN S.ge => \A v \in vs : v >= S.ge[f]
    /\ f \in DOMAIN S.gt => \A v \in vs : v > S.gt[f]
    /\ f \in DOMAIN S.le => \A v \in vs : v <= S.le[f]

(* Columns without a default or default_factory must be supplied. *)
Required(S) == S.fields \ (DOMAIN S.defaults \cup S.stamps)

Validate(S, p) == \A f \in DOMAIN p : FieldOk(S, f, Values(S, p, f))

(* UniqueOk as one composite constraint over the unique columns together. *)
UniqueTogether(S, rows, p, self) ==
    \/ S.unique \cap DOMAIN p = {}
    \/ \A o \in rows :
          o.id # self => \E f \in S.unique \cap DOMAIN p : o[f] # p[f]

(* unique=True: no other row holds the same value in the column. *)
UniqueOk(S, rows, p, self) ==
    \A f \in S.unique \cap DOMAIN p :
        \A o \in rows : o.id # self => o[f] # p[f]

(* FkOk with the Optional foreign keys left unchecked. *)
FkOkRequiredColumns(S, store, p) ==
    \A f \in (DOMAIN S.fks \cap DOMAIN p) \ S.optional :
        \E o \in store[S.fks[f]] : o.id = p[f]

(* foreign_key="t.id": the referenced row exists (None references nothing). *)
FkOk(S, store, p) ==
    \A f \in DOMAIN S.fks \cap DOMAIN p :
        \A v \in Values(S, p, f) : \E o \in store[S.fks[f]] : o.id = v

Ids(rows) == {r.id : r \in rows}

(* primary_key=True with default None: the store assigns the next id. *)
NextId(rows) ==
    IF rows = {} THEN 1
    ELSE (CHOOSE m \in Ids(rows) : \A i \in Ids(rows) : i <= m) + 1

(* Construct with the timestamp default evaluated once, when the class is
   defined (default=datetime.utcnow()), not at each construction. *)
ConstructImportTime(S, p, id, t) ==
    [f \in S.fields \cup {"id"} |->
        IF f = "id" THEN id
        ELSE IF f \in DOMAIN p THEN p[f]
        ELSE IF f \in S.stamps THEN 0
        ELSE S.defaults[f]]

(* Construct with the role defaulting to the first member of UserRole. *)
ConstructFirstRole(S, p, id, t) ==
    [f \in S.fields \cup {"id"} |->
        IF f = "id" THEN id
        ELSE IF f \in DOMAIN p THEN p[f]
        ELSE IF f \in S.stamps THEN t
        ELSE IF f = "role" THEN "teacher"
        ELSE S.defaults[f]]

(* Row construction: supplied value, else default_factory=datetime.utcnow,
   else the static default. *)
Construct(S, p, id, t) ==
    [f \in S.fields \cup {"id"} |->
        IF f = "id" THEN id
        ELSE IF f \in DOMAIN p THEN p[f]
        ELSE IF f \in S.stamps THEN t
        ELSE S.defaults[f]]

(* Assign from the whole transfer shape: the Optional columns the payload
   leaves unset are written as None. *)
AssignOrReset(row, p) ==
    [f \in DOMAIN row |->
        IF f \in DOMAIN p THEN p[f]
        ELSE IF f \in {"grade_level", "school_name"} THEN None
        ELSE row[f]]

(* A partial write assigns the supplied columns and no other. *)
Assign(row, p) ==
    [f \in DOMAIN row |-> IF f \in DOMAIN p THEN p[f] ELSE row[f]]

Get(rows, id) == {r \in rows : r.id = id}

RECURSIVE RowCount(_, _)
RowCount(store, ts) ==
    IF ts = {} THEN 0
    ELSE LET t == CHOOSE x \in ts : TRUE
         IN  Cardinality(store[t]) + RowCount(store, ts \ {t})

TotalRows == RowCount(db, Tables)

(* ------------------------------------------------------------ operations *)
CreateStatus(S, p) ==
    IF ~(Required(S) \subseteq DOMAIN p) \/ ~Validate(S, p) THEN "ValidationError"
    ELSE IF ~UniqueOk(S, db[S.table], p, 0) THEN "UniqueConstraintError"
    ELSE IF ~FkOk(S, db, p) THEN "ForeignKeyError"
    ELSE "ok"

Create(t, p) ==
    LET S == Schema(t)
        st == CreateStatus(S, p)
        id == NextId(db[t])
    IN  /\ db' = IF st = "ok"
                 THEN [db EXCEPT ![t] = @ \cup {Construct(S, p, id, now)}]
                 ELSE db
        /\ last' = [op |-> "Create", table |-> t, args |-> p,
                    id |-> IF st = "ok" THEN id ELSE 0, status |-> st]
        /\ UNCHANGED <<now, pending>>

(* UpdateStatus without the lookup of the row. *)
UpdateStatusNoLookup(S, id, p) ==
    IF ~Validate(S, p) THEN "ValidationError"
    ELSE IF ~UniqueOk(S, db[S.table], p, id) THEN "UniqueConstraintError"
    ELSE IF ~FkOk(S, db, p) THEN "ForeignKeyError"
    ELSE "ok"

UpdateStatus(S, id, p) ==
    IF Get(db[S.table], id) = {} THEN "NotFoundError"
    ELSE IF ~Validate(S, p) THEN "ValidationError"
    ELSE IF ~UniqueOk(S, db[S.table], p, id) THEN "UniqueConstraintError"
    ELSE IF ~FkOk(S, db, p) THEN "ForeignKeyError"
    ELSE "ok"

(* Update that writes back only the row it changed. *)
UpdateReplacing(t, id, p) ==
    LET S == Schema(t)
        st == UpdateStatus(S, id, p)
    IN  /\ db' = IF st = "ok"
                 THEN [db EXCEPT ![t] = {Assign(r, p) : r \in Get(@, id)}]
                 ELSE db
        /\ last' = [op |-> "Update", table |-> t, args |-> p,
                    id |-> id, status |-> st]
        /\ UNCHANGED <<now, pending>>

Update(t, id, p) ==
    LET S == Schema(t)
        st == UpdateStatus(S, id, p)
    IN  /\ db' = IF st = "ok"
                 THEN [db EXCEPT ![t] =
                        {IF r.id = id THEN Assign(r, p) ELSE r : r \in @}]
                 ELSE db
        /\ last' = [op |-> "Update", table |-> t, args |-> p,
                    id |-> id, status |-> st]
        /\ UNCHANGED <<now, pending>>

Read(t, id) ==
    /\ last' = [op |-> "Read", table |-> t, args |-> Get(db[t], id), id |-> id,
                status |-> IF Get(db[t], id) = {} THEN "NotFoundError" ELSE "ok"]
    /\ UNCHANGED <<db, now, pending>>

(* datetime.utcnow between two operations: the clock may or may not have
   advanced. *)
Tick ==
    /\ now < MaxTime
    /\ now' = now + 1
    /\ last' = [op |-> "Tick", table |-> "", args |-> NoFields, id |-> 0,
                status |-> "ok"]
    /\ UNCHANGED <<db, pending>>

(* ---------------------------------------------------------------- inputs *)
(* Every payload is a partial record: the columns the caller supplies.  The
   payloads of a transfer shape (UserCreate, UserUpdate, QuizSessionCreate,
   VocabularyTermCreate, LearningModuleCreate, ARExperienceCreate) carry only
   that shape's fields. *)
UserCreateInputs ==
    {[username |-> "u1", email |-> "e1", full_name |-> "n1"],
     [username |-> "u1", email |-> "e2", full_name |-> "n1"],
     [username |-> "u2", email |-> "e1", full_name |-> "n1"],
     [username |-> "u1", email |-> "e1", full_name |-> "n1", role |-> "teacher"],
     [username |-> "u2", email |-> "e2", full_name |-> "n1", role |-> "wizard"],
     [username |-> "u2", email |-> "e2", full_name |-> "n1", grade_level |-> {"grade_9"}],
     [username |-> "u2", email |-> "e2"]}

UserUpdateInputs ==
    {NoFields,
     [full_name |-> "n2"],
     [grade_level |-> {"grade_5"}],
     [grade_level |-> {"grade_9"}],
     [school_name |-> {"s1"}],
     [is_active |-> FALSE],
     [is_active |-> TRUE],
     [full_name |-> "n2", is_active |-> FALSE]}

LearningModuleCreateInputs ==
    {[grade_level |-> "grade_4", historical_period |-> "prehistoric", teacher_id |-> 1],
     [grade_level |-> "grade_9", historical_period |-> "prehistoric", teacher_id |-> 1],
     [grade_level |-> "grade_4", historical_period |-> "jurassic", teacher_id |-> 1]}

LessonPlanInputs ==
    {[module_id |-> 1, duration_minutes |-> 30],
     [module_id |-> 1, duration_minutes |-> 0]}

TeachingMaterialInputs ==
    {[module_id |-> 1, content_type |-> "video"],
     [module_id |-> 1, content_type |-> "hologram"]}

StudentActivityInputs ==
    {[module_id |-> 1, estimated_duration |-> 15],
     [module_id |-> 1, estimated_duration |-> 0]}

QuizLevelInputs ==
    {[level_number |-> 1, historical_period |-> "independence"],
     [level_number |-> 1, historical_period |-> "independence", reward_points |-> 0],
     [level_number |-> 1, historical_period |-> "independence", reward_points |-> -1],
     [level_number |-> 0, historical_period |-> "independence"],
     [level_number |-> 1, historical_period |-> "independence",
      difficulty_level |-> "extreme"]}

QuizQuestionInputs ==
    {[level_id |-> 1],
     [level_id |-> 1, points |-> 1],
     [level_id |-> 1, points |-> 0],
     [level_id |-> 1, points |-> -1]}

QuizSessionCreateInputs ==
    {[student_id |-> 1, level_id |-> 1, total_questions |-> 1],
     [student_id |-> 1, level_id |-> 1, total_questions |-> 0]}

QuizSessionUpdateInputs ==
    {[score |-> 5], [score |-> -1]}

StudentRewardInputs ==
    {[student_id |-> 1, reward_type |-> "badge"],
     [student_id |-> 1, reward_type |-> "points", points_value |-> 50],
     [student_id |-> 1, reward_type |-> "points", points_value |-> -1],
     [student_id |-> 1, reward_type |-> "trophy"]}

VocabularyTermCreateInputs ==
    {[term |-> "t1", historical_period |-> "prehistoric"],
     [term |-> "t2", historical_period |-> "prehistoric"],
     [term |-> "t2", historical_period |-> "jurassic"],
     [term |-> "t2", historical_period |-> "prehistoric", difficulty_level |-> "extreme"]}

VocabularyTermUpdateInputs ==
    {[term |-> "t1"], [difficulty_level |-> "extreme"]}

VocabularyConnectionInputs ==
    {[source_term_id |-> 1, target_term_id |-> 2]}
    \cup {[source_term_id |-> 1, target_term_id |-> 2, strength |-> k] : k \in 0..6}
    \cup {[source_term_id |-> 2, target_term_id |-> 1, strength |-> 3]}

HistoricalFigureInputs ==
    {[historical_period |-> "independence"], [historical_period |-> "jurassic"]}

DiaryEntryInputs ==
    {[figure_id |-> 1], [figure_id |-> 1, order_sequence |-> 0]}

TimelineEventInputs ==
    {[figure_id |-> 1], [figure_id |-> 1, order_sequence |-> 0]}

MultimediaContentInputs ==
    {[figure_id |-> 1, content_type |-> "audio"],
     [figure_id |-> 1, content_type |-> "hologram"]}

ARTriggerInputs == {NoFields}

ARExperienceCreateInputs ==
    {[trigger_id |-> 1],
     [trigger_id |-> 1, figure_id |-> {1}],
     [trigger_id |-> 1, duration_seconds |-> 0],
     [trigger_id |-> 1, difficulty_level |-> "extreme"]}

ARInteractionInputs ==
    {[experience_id |-> 1], [experience_id |-> 1, order_sequence |-> 0]}

StudentProgressInputs ==
    {[student_id |-> 1, activity_id |-> 7],
     [student_id |-> 1, activity_id |-> 7, progress_percentage |-> 100],
     [student_id |-> 1, activity_id |-> 7, progress_percentage |-> 101],
     [student_id |-> 1, activity_id |-> 7, progress_percentage |-> -1],
     [student_id |-> 1, activity_id |-> 7, score |-> {3}],
     [student_id |-> 1, activity_id |-> 7, score |-> {-1}]}

StudentProgressUpdateInputs ==
    {[progress_percentage |-> 50], [progress_percentage |-> 101]}

UsageAnalyticsInputs ==
    {[user_id |-> 1], [user_id |-> 1, session_duration |-> -1]}

RowIds == 1..MaxRows

(* The ids the updates of the whole-store specification target: the first
   row of a table and the next id, stored or not. *)
FirstIds == {1, 2}

(* --------------------------------------------------------------- actions *)
CreateUser == \E p \in UserCreateInputs : Create("users", p)

UpdateUser == \E id \in RowIds : \E p \in UserUpdateInputs : Update("users", id, p)

ReadUser == \E id \in RowIds : Read("users", id)

CreateLearningModule == \E p \in LearningModuleCreateInputs : Create("learning_modules", p)

CreateLessonPlan == \E p \in LessonPlanInputs : Create("lesson_plans", p)

CreateTeachingMaterial == \E p \in TeachingMaterialInputs : Create("teaching_materials", p)

CreateStudentActivity == \E p \in StudentActivityInputs : Create("student_activities", p)

CreateQuizLevel == \E p \in QuizLevelInputs : Create("quiz_levels", p)

CreateQuizQuestion == \E p \in QuizQuestionInputs : Create("quiz_questions", p)

CreateQuizSession == \E p \in QuizSessionCreateInputs : Create("quiz_sessions", p)

UpdateQuizSession ==
    \E id \in FirstIds : \E p \in QuizSessionUpdateInputs : Update("quiz_sessions", id, p)

CreateStudentReward == \E p \in StudentRewardInputs : Create("student_rewards", p)

CreateVocabularyTerm == \E p \in VocabularyTermCreateInputs : Create("vocabulary_terms", p)

UpdateVocabularyTerm ==
    \E id \in FirstIds : \E p \in VocabularyTermUpdateInputs :
        Update("vocabulary_terms", id, p)

CreateVocabularyConnection ==
    \E p \in VocabularyConnectionInputs : Create("vocabulary_connections", p)

CreateHistoricalFigure == \E p \in HistoricalFigureInputs : Create("historical_figures", p)

CreateDiaryEntry == \E p \in DiaryEntryInputs : Create("diary_entries", p)

CreateTimelineEvent == \E p \in TimelineEventInputs : Create("timeline_events", p)

CreateMultimediaContent == \E p \in MultimediaContentInputs : Create("multimedia_content", p)

CreateARTrigger == \E p \in ARTriggerInputs : Create("ar_triggers", p)

CreateARExperience == \E p \in ARExperienceCreateInputs : Create("ar_experiences", p)

CreateARInteraction == \E p \in ARInteractionInputs : Create("ar_interactions", p)

CreateStudentProgress == \E p \in StudentProgressInputs : Create("student_progress", p)

UpdateStudentProgress ==
    \E id \in FirstIds : \E p \in StudentProgressUpdateInputs :
        Update("student_progress", id, p)

CreateUsageAnalytics == \E p \in UsageAnalyticsInputs : Create("usage_analytics", p)

(* The is_active flag of the two other flagged tables, written by a partial
   update. *)
ActiveFlagInputs == {[is_active |-> FALSE], [is_active |-> TRUE]}

(* UserUpdate payloads that carry the flag, and two that do not. *)
UserFlagInputs ==
    {NoFields, [full_name |-> "n2"], [is_active |-> FALSE], [is_active |-> TRUE]}

SetUserActive ==
    \E id \in FirstIds : \E p \in UserFlagInputs : Update("users", id, p)

UpdateQuizLevel ==
    \E id \in FirstIds : \E p \in ActiveFlagInputs : Update("quiz_levels", id, p)

UpdateARTrigger ==
    \E id \in FirstIds : \E p \in ActiveFlagInputs : Update("ar_triggers", id, p)

(* ------------------------------------------------- concurrent creates *)
(* Two request handlers creating users against the one store.  A handler
   first builds the User from a UserCreate payload (validation, defaults and
   default_factory timestamps happen here), and later inserts it; the store
   enforces the unique columns when it inserts, in the same step as the write. *)
Procs == 1..NumProcs

(* InsertStatus on columns declared without unique=True. *)
InsertStatusUnindexed(S, store, p) ==
    IF ~FkOk(S, store, p) THEN "ForeignKeyError" ELSE "ok"

InsertStatus(S, store, p) ==
    IF ~UniqueOk(S, store[S.table], p, 0) THEN "UniqueConstraintError"
    ELSE IF ~FkOk(S, store, p) THEN "ForeignKeyError"
    ELSE "ok"

Begin(i) ==
    /\ pending[i] = {}
    /\ \E p \in UserCreateInputs :
         LET valid == Required(User) \subseteq DOMAIN p /\ Validate(User, p)
         IN  pending' = [pending EXCEPT ![i] =
                 {[args |-> p, at |-> now, id |-> 0,
                   status |-> IF valid THEN "built" ELSE "ValidationError"]}]
    /\ UNCHANGED <<db, now, last>>

Commit(i) ==
    \E c \in pending[i] :
        LET st == InsertStatus(User, db, c.args)
            id == NextId(db["users"])
        IN  /\ c.status = "built"
            /\ db' = IF st = "ok"
                     THEN [db EXCEPT !["users"] =
                             @ \cup {Construct(User, c.args, id, c.at)}]
                     ELSE db
            /\ pending' = [pending EXCEPT ![i] =
                    {[c EXCEPT !.status = st, !.id = IF st = "ok" THEN id ELSE 0]}]
            /\ UNCHANGED <<now, last>>

(* The handler returns its result and takes the next request. *)
Return(i) ==
    /\ \E c \in pending[i] : c.status # "built"
    /\ pending' = [pending EXCEPT ![i] = {}]
    /\ UNCHANGED <<db, now, last>>

Init ==
    /\ db = [t \in Tables |-> {}]
    /\ now = 0
    /\ last = [op |-> "Init", table |-> "", args |-> NoFields, id |-> 0, status |-> "ok"]
    /\ pending = [i \in Procs |-> {}]

(* The model caps the store at MaxRows rows: no create is attempted on a
   full store. *)
HasRoom == TotalRows < MaxRows

CreateAny ==
    \/ CreateUser
    \/ CreateLearningModule
    \/ CreateLessonPlan
    \/ CreateTeachingMaterial
    \/ CreateStudentActivity
    \/ CreateQuizLevel
    \/ CreateQuizQuestion
    \/ CreateQuizSession
    \/ CreateStudentReward
    \/ CreateVocabularyTerm
    \/ CreateVocabularyConnection
    \/ CreateHistoricalFigure
    \/ CreateDiaryEntry
    \/ CreateTimelineEvent
    \/ CreateMultimediaContent
    \/ CreateARTrigger
    \/ CreateARExperience
    \/ CreateARInteraction
    \/ CreateStudentProgress
    \/ CreateUsageAnalytics

UpdateAny ==
    \/ UpdateQuizSession
    \/ UpdateVocabularyTerm
    \/ UpdateStudentProgress

(* The whole store, one operation at a time, at one instant. *)
Next ==
    \/ (HasRoom /\ CreateAny)
    \/ UpdateAny

Spec == Init /\ [][Next]_vars

(* The users table over time: creates, partial updates and reads, with the
   clock advancing between them. *)
NextUser ==
    \/ (HasRoom /\ CreateUser)
    \/ UpdateUser
    \/ ReadUser
    \/ Tick

SpecUser == Init /\ [][NextUser]_vars

(* The three tables with an is_active flag, created and updated at one
   instant. *)
NextActive ==
    \/ (HasRoom /\ (CreateUser \/ CreateQuizLevel \/ CreateARTrigger))
    \/ SetUserActive
    \/ UpdateQuizLevel
    \/ UpdateARTrigger

SpecActive == Init /\ [][NextActive]_vars

(* Concurrent user creation: the handlers' steps interleave freely. *)
NextConc ==
    \/ \E i \in Procs : HasRoom /\ Begin(i)
    \/ \E i \in Procs : Commit(i)
    \/ \E i \in Procs : Return(i)

SpecConc == Init /\ [][NextConc]_vars

(* ================================================================ claims *)
Rows(t) == db[t]

IsCreate(l, t) == l.op = "Create" /\ l.table = t

IsUpdate(l, t) == l.op = "Update" /\ l.table = t

Supplies(l, f) == f \in DOMAIN l.args

(* The payload of a user create as UserCreate accepts it: the three required
   fields, a role of the closed set, a grade level of the closed set. *)
AcceptableUser(p) ==
    /\ {"username", "email", "full_name"} \subseteq DOMAIN p
    /\ "role" \in DOMAIN p => p.role \in {"student", "teacher", "admin"}
    /\ "grade_level" \in DOMAIN p => p.grade_level \subseteq {"grade_4", "grade_5", "grade_6"}

AcceptableTerm(p) ==
    /\ p.historical_period \in HistoricalPeriod
    /\ "difficulty_level" \in DOMAIN p => p.difficulty_level \in {"easy", "medium", "hard"}

(* C1: no two users share a username or an email and no two vocabulary terms
   share a term, whatever creates and updates have run; and a create of a user
   (a term) that collides with a stored row on username or email (on term)
   leaves the store as it was and fails, with UniqueConstraintError when the
   payload is otherwise acceptable. *)
C1_StoredUnique ==
    /\ \A a, b \in Rows("users") :
          (a.username = b.username \/ a.email = b.email) => a = b
    /\ \A a, b \in Rows("vocabulary_terms") : a.term = b.term => a = b

C1_CollisionStep ==
    /\ (/\ IsCreate(last', "users")
        /\ Supplies(last', "username") /\ Supplies(last', "email")
        /\ \E r \in Rows("users") :
              r.username = last'.args.username \/ r.email = last'.args.email)
       => /\ last'.status # "ok"
          /\ db' = db
          /\ AcceptableUser(last'.args) => last'.status = "UniqueConstraintError"
    /\ (/\ IsCreate(last', "vocabulary_terms")
        /\ \E r \in Rows("vocabulary_terms") : r.term = last'.args.term)
       => /\ last'.status # "ok"
          /\ db' = db
          /\ AcceptableTerm(last'.args) => last'.status = "UniqueConstraintError"

(* C1: stored uniqueness holds in every state, and the collision rule at
   every step. *)
C1_Unique == [](C1_StoredUnique) /\ [][C1_CollisionStep]_vars

C1_Witness ==
    /\ IsCreate(last, "users")
    /\ last.status = "UniqueConstraintError"
    /\ Cardinality(Rows("users")) = 2

(* C2: every foreign-key column that holds a value holds the id of a stored
   row of its target table (an Optional foreign key that is None references
   nothing); and a create whose foreign key names no stored row leaves the
   store as it was and fails, a quiz question with an unknown level_id and an
   otherwise valid payload failing with ForeignKeyError. *)
ForeignKeys ==
    {<<"learning_modules", "teacher_id", "users">>,
     <<"lesson_plans", "module_id", "learning_modules">>,
     <<"teaching_materials", "module_id", "learning_modules">>,
     <<"student_activities", "module_id", "learning_modules">>,
     <<"quiz_questions", "level_id", "quiz_levels">>,
     <<"quiz_sessions", "student_id", "users">>,
     <<"quiz_sessions", "level_id", "quiz_levels">>,
     <<"student_rewards", "student_id", "users">>,
     <<"vocabulary_connections", "source_term_id", "vocabulary_terms">>,
     <<"vocabulary_connections", "target_term_id", "vocabulary_terms">>,
     <<"diary_entries", "figure_id", "historical_figures">>,
     <<"timeline_events", "figure_id", "historical_figures">>,
     <<"multimedia_content", "figure_id", "historical_figures">>,
     <<"ar_experiences", "trigger_id", "ar_triggers">>,
     <<"ar_interactions", "experience_id", "ar_experiences">>,
     <<"student_progress", "student_id", "users">>,
     <<"usage_analytics", "user_id", "users">>}

C2_StoredReferences ==
    /\ \A k \in ForeignKeys :
          \A r \in Rows(k[1]) : \E o \in Rows(k[3]) : o.id = r[k[2]]
    /\ \A r \in Rows("ar_experiences") :
          \A v \in r.figure_id : \E o \in Rows("historical_figures") : o.id = v

C2_DanglingStep ==
    /\ \A k \in ForeignKeys :
          (/\ IsCreate(last', k[1])
           /\ ~ \E o \in Rows(k[3]) : o.id = last'.args[k[2]])
          => last'.status # "ok" /\ db' = db
    /\ (/\ IsCreate(last', "ar_experiences")
        /\ Supplies(last', "figure_id")
        /\ \E v \in last'.args.figure_id :
              ~ \E o \in Rows("historical_figures") : o.id = v)
       => last'.status # "ok" /\ db' = db
    /\ (/\ IsCreate(last', "quiz_questions")
        /\ last'.args.level_id \notin {o.id : o \in Rows("quiz_levels")}
        /\ Supplies(last', "points") => last'.args.points >= 1)
       => last'.status = "ForeignKeyError"

(* C2: stored references resolve in every state, and the dangling-key rule
   holds at every step. *)
C2_ForeignKeys == [](C2_StoredReferences) /\ [][C2_DanglingStep]_vars

C2_Witness ==
    /\ IsCreate(last, "quiz_questions")
    /\ last.status = "ForeignKeyError"
    /\ Rows("quiz_levels") = {}
    /\ \E r \in Rows("learning_modules") : r.teacher_id = 1

(* C3: a connection created with strength 0 or 6 is refused with
   ValidationError, one created with a strength of 1..5 (or none, the default)
   between two stored terms is stored with that strength, and every stored
   connection has a strength of 1..5. *)
C3_Strength ==
    /\ \A c \in Rows("vocabulary_connections") : c.strength \in 1..5
    /\ (IsCreate(last, "vocabulary_connections") /\ Supplies(last, "strength"))
       => /\ last.args.strength \in {0, 6} => last.status = "ValidationError"
          /\ (/\ last.args.strength \in {1, 2, 3, 4, 5}
              /\ \E o \in Rows("vocabulary_terms") : o.id = last.args.source_term_id
              /\ \E o \in Rows("vocabulary_terms") : o.id = last.args.target_term_id)
             => /\ last.status = "ok"
                /\ \E c \in Rows("vocabulary_connections") :
                      c.id = last.id /\ c.strength = last.args.strength

C3_Witness ==
    /\ IsCreate(last, "vocabulary_connections")
    /\ Supplies(last, "strength")
    /\ last.args.strength = 6
    /\ last.status = "ValidationError"
    /\ Cardinality(Rows("vocabulary_terms")) = 2

(* C4: every stored value of an enum-typed column is a member of its closed
   set (an Optional grade_level may be None), and a create that supplies a
   value outside the set, such as a user with role "wizard", is refused with
   ValidationError. *)
ClosedSet(f) ==
    CASE f = "role" -> {"student", "teacher", "admin"}
      [] f = "grade_level" -> {"grade_4", "grade_5", "grade_6"}
      [] f \in {"difficulty_level", "difficulty"} -> {"easy", "medium", "hard"}
      [] f = "content_type" ->
            {"presentation", "text", "image", "video", "audio", "document"}
      [] f = "reward_type" -> {"points", "badge", "power_up", "achievement"}
      [] f = "historical_period" ->
            {"prehistoric", "hindu_buddhist", "islamic_kingdoms", "colonial_dutch",
             "colonial_japanese", "independence", "post_independence"}

EnumColumns ==
    {"role", "grade_level", "difficulty_level", "difficulty", "content_type",
     "reward_type", "historical_period"}

(* The enum values a record holds in column f. *)
Held(t, r, f) == IF t = "users" /\ f = "grade_level" THEN r[f] ELSE {r[f]}

C4_Enums ==
    /\ \A u \in Rows("users") : u.role \in {"student", "teacher", "admin"}
    /\ \A t \in Tables : \A r \in Rows(t) :
          \A f \in EnumColumns \cap DOMAIN r : Held(t, r, f) \subseteq ClosedSet(f)
    /\ last.op = "Create"
       => \A f \in EnumColumns \cap DOMAIN last.args :
             ~(Held(last.table, last.args, f) \subseteq ClosedSet(f))
             => last.status = "ValidationError"
    /\ last.op = "Update"
       => \A f \in EnumColumns \cap DOMAIN last.args :
             ~(Held(last.table, last.args, f) \subseteq ClosedSet(f))
             => last.status \in {"ValidationError", "NotFoundError"}

C4_Witness ==
    /\ IsCreate(last, "users")
    /\ Supplies(last, "role")
    /\ last.args.role = "wizard"
    /\ last.status = "ValidationError"
    /\ \E u \in Rows("users") : u.role = "teacher"

(* C5: every successful update of a row that has an updated_at column leaves
   updated_at strictly greater than it was.  Stated for the updates of a user
   that supply a column and are made once the clock has passed the row's
   updated_at, where a refresh from the clock would advance it. *)
C5_UpdatedAtStep ==
    (/\ IsUpdate(last', "users")
     /\ last'.status = "ok"
     /\ DOMAIN last'.args # {})
    => \A r \in Rows("users") : \A q \in db'["users"] :
          (r.id = last'.id /\ q.id = last'.id /\ now > r.updated_at)
          => q.updated_at > r.updated_at

(* C5: every successful update strictly advances updated_at. *)
C5_UpdatedAtAdvances == [][C5_UpdatedAtStep]_vars

(* C6: an update with an empty payload of a stored user succeeds, and changes
   nothing but (at most) that user's updated_at: the user's other columns, the
   other users and the other tables are as they were. *)
SameBut(r, q, cols) ==
    DOMAIN r = DOMAIN q /\ \A f \in DOMAIN r \ cols : r[f] = q[f]

C6_EmptyUpdateStep ==
    (/\ IsUpdate(last', "users")
     /\ DOMAIN last'.args = {}
     /\ \E r \in Rows("users") : r.id = last'.id)
    => /\ last'.status = "ok"
       /\ \A t \in Tables \ {"users"} : db'[t] = db[t]
       /\ \A r \in Rows("users") : r.id # last'.id => r \in db'["users"]
       /\ \A r \in Rows("users") :
             r.id = last'.id => \E q \in db'["users"] : SameBut(r, q, {"updated_at"})
       /\ Cardinality(db'["users"]) = Cardinality(Rows("users"))

(* C6: every step that is an empty update of a stored user changes nothing
   but updated_at. *)
C6_EmptyUpdate == [][C6_EmptyUpdateStep]_vars

C6_Witness ==
    /\ IsUpdate(last, "users")
    /\ DOMAIN last.args = {}
    /\ last.status = "ok"
    /\ \E r \in Rows("users") :
          /\ r.id = last.id
          /\ r.grade_level = {"grade_5"}
          /\ r.full_name = "n2"
          /\ r.created_at < now
    /\ Cardinality(Rows("users")) = 2

(* C7: a create that succeeds returns an id that no stored row of the table
   had, adds exactly the new row, and stamps its created_at with the time of
   the create; ids stay distinct, and no later step changes a row's
   created_at. *)
C7_DistinctIds ==
    \A t \in Tables : \A a, b \in Rows(t) : a.id = b.id => a = b

C7_CreateStep ==
    /\ (last'.op = "Create" /\ last'.status = "ok")
       => /\ \A r \in Rows(last'.table) : r.id # last'.id
          /\ \E q \in db'[last'.table] :
                /\ q.id = last'.id
                /\ q.created_at = now
                /\ db'[last'.table] = Rows(last'.table) \cup {q}
    /\ \A r \in Rows("users") : \A q \in db'["users"] :
          r.id = q.id => q.created_at = r.created_at

(* C7: ids are distinct in every state; every create returns a fresh id and
   stamps created_at, which no step changes afterwards. *)
C7_FreshIdAndCreatedAt == [](C7_DistinctIds) /\ [][C7_CreateStep]_vars

C7_Witness ==
    /\ IsUpdate(last, "users")
    /\ last.status = "ok"
    /\ \E r \in Rows("users") :
          r.id = 2 /\ r.id = last.id /\ r.created_at = 1 /\ r.full_name = "n2"

(* C8: every stored progress_percentage is in 0..100, every stored points or
   score column is >= 0, and a create or an update of a stored row that
   supplies a value outside the column's range is refused with
   ValidationError. *)
C8_StoredInRange ==
    /\ \A r \in Rows("student_progress") :
          r.progress_percentage \in 0..100 /\ \A v \in r.score : v >= 0
    /\ \A r \in Rows("quiz_sessions") : r.score >= 0
    /\ \A r \in Rows("quiz_questions") : r.points >= 0
    /\ \A r \in Rows("quiz_levels") : r.reward_points >= 0
    /\ \A r \in Rows("student_rewards") : r.points_value >= 0

OutOfRange(t, p) ==
    \/ t = "student_progress" /\ "progress_percentage" \in DOMAIN p
          /\ p.progress_percentage \notin 0..100
    \/ t = "student_progress" /\ "score" \in DOMAIN p /\ \E v \in p.score : v < 0
    \/ t = "quiz_sessions" /\ "score" \in DOMAIN p /\ p.score < 0
    \/ t = "quiz_questions" /\ "points" \in DOMAIN p /\ p.points < 0
    \/ t = "quiz_levels" /\ "reward_points" \in DOMAIN p /\ p.reward_points < 0
    \/ t = "student_rewards" /\ "points_value" \in DOMAIN p /\ p.points_value < 0

(* C8: stored numeric columns are in range, and an out-of-range write is
   refused with ValidationError. *)
C8_Ranges ==
    /\ C8_StoredInRange
    /\ (last.op = "Create" /\ OutOfRange(last.table, last.args))
       => last.status = "ValidationError"
    /\ (last.op = "Update" /\ OutOfRange(last.table, last.args)
          /\ \E r \in Rows(last.table) : r.id = last.id)
       => last.status = "ValidationError"

C8_Witness ==
    /\ IsUpdate(last, "student_progress")
    /\ Supplies(last, "progress_percentage")
    /\ last.args.progress_percentage = 101
    /\ last.status = "ValidationError"
    /\ \E r \in Rows("student_progress") : r.id = last.id /\ r.progress_percentage = 50

(* C9: an update or a read whose id identifies no stored row fails with
   NotFoundError and leaves the store as it was. *)
C9_MissingIdStep ==
    (/\ last'.op \in {"Update", "Read"}
     /\ ~ \E r \in Rows(last'.table) : r.id = last'.id)
    => last'.status = "NotFoundError" /\ db' = db

C10_AtMostOneWins ==
    /\ \A a, b \in Rows("users") :
          (a.username = b.username \/ a.email = b.email) => a = b
    /\ \A i, j \in Procs : \A c \in pending[i] : \A d \in pending[j] :
          (i # j /\ c.status = "ok" /\ d.status = "ok")
          => /\ c.args.username # d.args.username
             /\ c.args.email # d.args.email

C10_Witness ==
    \E i, j \in Procs : \E c \in pending[i] : \E d \in pending[j] :
        /\ i # j
        /\ c.args.username = d.args.username
        /\ c.status = "ok"
        /\ d.status = "UniqueConstraintError"

(* C11: no step removes a row: every stored row is stored, under the same
   id, after every step; a row of a table with an is_active flag (users,
   quiz_levels, ar_triggers) is active when it is created; and its flag
   changes only in a successful update of that very row that supplies
   is_active, to the value supplied. *)
FlaggedTables == {"users", "quiz_levels", "ar_triggers"}

C11_LifecycleStep ==
    /\ \A t \in Tables : \A r \in Rows(t) : \E q \in db'[t] : q.id = r.id
    /\ \A t \in FlaggedTables : \A q \in db'[t] :
          (~ \E r \in Rows(t) : r.id = q.id) => q.is_active = TRUE
    /\ \A t \in FlaggedTables : \A r \in Rows(t) : \A q \in db'[t] :
          (r.id = q.id /\ q.is_active # r.is_active)
          => /\ IsUpdate(last', t)
             /\ last'.id = r.id
             /\ last'.status = "ok"
             /\ Supplies(last', "is_active")
             /\ last'.args.is_active = q.is_active

UserUpdateColumns ==
    {"full_name", "grade_level", "school_name", "is_active", "updated_at"}

C12_UserShapesStep ==
    /\ IsUpdate(last', "users")
       => /\ \A r \in Rows("users") : \E q \in db'["users"] :
                /\ q.id = r.id
                /\ q.username = r.username
                /\ q.email = r.email
                /\ q.role = r.role
                /\ q.created_at = r.created_at
                /\ SameBut(r, q, UserUpdateColumns)
          /\ Cardinality(db'["users"]) = Cardinality(Rows("users"))
    /\ (IsCreate(last', "users") /\ last'.status = "ok" /\ ~Supplies(last', "role"))
       => \E q \in db'["users"] :
             /\ q.id = last'.id
             /\ q \notin Rows("users")
             /\ q.role = "student"
             /\ q.is_active = TRUE

(* C12: UserUpdate changes only its own columns, and UserCreate without a
   role stores a student who is active. *)
C12_UserShapes == [][C12_UserShapesStep]_vars

C12_Witness ==
    /\ IsCreate(last, "users")
    /\ last.status = "ok"
    /\ ~Supplies(last, "role")
    /\ \E q \in Rows("users") : q.id = last.id /\ q.role = "student" /\ q.is_active
    /\ \E r \in Rows("users") :
          /\ r.id # last.id
          /\ r.full_name = "n2"
          /\ ~r.is_active
          /\ r.grade_level = {"grade_5"}
          /\ r.school_name = {"s1"}

====
